---------------------------- MODULE Spec2Model ----------------------------
(***************************************************************************)
(* A model of pyfroc's evaluation engine: WithinLesionRater's              *)
(* evaluate_case_responses (src/src/pyfroc/raters/within_lesion_rater.py)  *)
(* over the signal model of src/src/pyfroc/signals.py and coords.py.       *)
(*                                                                         *)
(* Coordinates, radii and confidences are integers.  The code compares     *)
(* Euclidean distances d = sqrt(q) of integer q; sqrt is monotonic and     *)
(* exact on perfect squares, so  d1 < d2  iff  q1 < q2  and  d <= r  iff   *)
(* q <= r*r  (r > 0).  The model keeps q, the squared distance.            *)
(***************************************************************************)
EXTENDS Integers, Sequences, FiniteSets, TLC

(***************************************************************************)
(* Bounds of the model and the input domains.                              *)
(***************************************************************************)
MaxResponses == 2

MaxLesions == 2

LesionCoords == {[x |-> cx, y |-> cy, z |-> 0] : cx \in 0..2, cy \in 0..1}

ResponseCoords == {[x |-> cx, y |-> 0, z |-> 0] : cx \in 0..2}

Radii == {1, 3}

Lesions == {[coords |-> c, r |-> rad, name |-> "L"] : c \in LesionCoords, rad \in Radii}

Responses == {[coords |-> c, confidence |-> 1, r |-> 1, name |-> "R"] : c \in ResponseCoords}

SeqsUpTo(S, n) == UNION {[1..k -> S] : k \in 0..n}

None == -1

(***************************************************************************)
(* Python list helpers.                                                    *)
(***************************************************************************)
Range(s) == {s[i] : i \in 1..Len(s)}

Front(s) == SubSeq(s, 1, Len(s) - 1)

Last(s) == s[Len(s)]

\* list.index(x): the first position of x
IndexOf(s, x) == CHOOSE i \in 1..Len(s) : s[i] = x /\ \A j \in 1..(i - 1) : s[j] # x

\* list.remove(x): the list without the first occurrence of x
Remove(s, x) ==
    IF x \notin Range(s) THEN s
    ELSE LET i == IndexOf(s, x) IN SubSeq(s, 1, i - 1) \o SubSeq(s, i + 1, Len(s))

IsInjective(s) == \A i, j \in 1..Len(s) : s[i] = s[j] => i = j

\* every ordering of a finite set as a list (the iteration order of a set)
Orderings(S) == {s \in [1..Cardinality(S) -> S] : Range(s) = S}

(***************************************************************************)
(* coords.py, signals.py                                                   *)
(***************************************************************************)
\* Coordinates._distance, squared
DistSq(a, b) ==
    (a.x - b.x) * (a.x - b.x) + (a.y - b.y) * (a.y - b.y) + (a.z - b.z) * (a.z - b.z)

\* Lesion.distance / Response.distance, squared
distance(s, other) == DistSq(s.coords, other.coords)

\* a mutant of is_true_positive: the response's own radius decides
is_true_positive_own_radius(response, lesion) ==
    distance(response, lesion) <= response.r * response.r

\* Response.is_true_positive: self.distance(lesion) <= lesion.r
is_true_positive(response, lesion) ==
    distance(response, lesion) <= lesion.r * lesion.r

(***************************************************************************)
(* WithinLesionRater.build_bidict                                          *)
(***************************************************************************)
\* The keys of {sig: ... for i, sig in enumerate(signals)}: equal signals
\* are one key, kept at the position of its first occurrence.
RECURSIVE DictKeys(_)
DictKeys(signals) ==
    IF signals = <<>> THEN <<>>
    ELSE LET d == DictKeys(Front(signals))
             x == Last(signals)
         IN IF x \in Range(d) THEN d ELSE Append(d, x)

\* The value the comprehension leaves under a key: the player made for the
\* last occurrence, named by its enumerate index i.
LastIndex(signals, sig) ==
    (CHOOSE i \in 1..Len(signals) :
        signals[i] = sig /\ \A j \in (i + 1)..Len(signals) : signals[j] # sig) - 1

\* bidict({sig: Player(i) ...}) as the list of its items in insertion order
build_bidict(signals) ==
    LET keys == DictKeys(signals)
    IN [k \in 1..Len(keys) |-> [key |-> keys[k], player |-> LastIndex(signals, keys[k])]]

Keys(bd) == [k \in 1..Len(bd) |-> bd[k].key]

Values(bd) == [k \in 1..Len(bd) |-> bd[k].player]

\* bd[key]
PlayerOf(bd, sig) == bd[CHOOSE k \in 1..Len(bd) : bd[k].key = sig].player

\* bd.inverse[player]
Inverse(bd, p) == bd[CHOOSE k \in 1..Len(bd) : bd[k].player = p].key

\* Hospital(name, capacity=1); hospital.capacity = 1
capacity == 1

\* Player(name): prefs = [], matching = None
NewPlayer == [prefs |-> <<>>, matching |-> None]

\* Hospital(name, capacity): prefs = [], matching = []
NewHospital == [prefs |-> <<>>, matching |-> <<>>, capacity |-> capacity]

(***************************************************************************)
(* WithinLesionRater.set_prefs_of_players                                  *)
(***************************************************************************)
\* a mutant of SortedByDistance: descending distance
RECURSIVE SortedByDistanceDesc(_, _)
SortedByDistanceDesc(signals, origin) ==
    IF signals = <<>> THEN <<>>
    ELSE LET t == SortedByDistanceDesc(Front(signals), origin)
             x == Last(signals)
             k == Cardinality({i \in 1..Len(t) :
                                 distance(t[i], origin) >= distance(x, origin)})
         IN SubSeq(t, 1, k) \o <<x>> \o SubSeq(t, k + 1, Len(t))

\* sorted(signals, key=lambda s: origin.distance(s)): a stable sort, equal
\* keys stay in the order of the input
RECURSIVE SortedByDistance(_, _)
SortedByDistance(signals, origin) ==
    IF signals = <<>> THEN <<>>
    ELSE LET t == SortedByDistance(Front(signals), origin)
             x == Last(signals)
             k == Cardinality({i \in 1..Len(t) :
                                 distance(t[i], origin) <= distance(x, origin)})
         IN SubSeq(t, 1, k) \o <<x>> \o SubSeq(t, k + 1, Len(t))

\* the first loop: every lesion ranks ALL responses by distance
HospitalsWithPrefs(responses_bd, lesions_bd) ==
    [h \in Range(Values(lesions_bd)) |->
        IF Len(responses_bd) = 0 THEN NewHospital
        ELSE LET lesion == Inverse(lesions_bd, h)
                 sorted_responses == SortedByDistance(Keys(responses_bd), lesion)
             IN [NewHospital EXCEPT !.prefs =
                    [k \in 1..Len(sorted_responses) |->
                        PlayerOf(responses_bd, sorted_responses[k])]]]

\* the second loop: every response ranks ALL lesions by distance
ResidentsWithPrefs(responses_bd, lesions_bd) ==
    [p \in Range(Values(responses_bd)) |->
        LET response == Inverse(responses_bd, p)
            sorted_lesions == SortedByDistance(Keys(lesions_bd), response)
        IN [NewPlayer EXCEPT !.prefs =
               [k \in 1..Len(sorted_lesions) |->
                   PlayerOf(lesions_bd, sorted_lesions[k])]]]

(***************************************************************************)
(* matching.algorithms.hospital_resident(residents, hospitals,             *)
(* optimal="hospital"), the call of evaluate_case_responses.  A game g is  *)
(* [hospitals, residents, free, ok]: the players, the list free_hospitals  *)
(* and whether the run is still free of errors.                            *)
(***************************************************************************)
\* Hospital.get_favourite: the first of prefs outside the matching
get_favourite(g, h) ==
    LET prefs == g.hospitals[h].prefs
        open == {i \in 1..Len(prefs) : prefs[i] \notin Range(g.hospitals[h].matching)}
    IN IF open = {} THEN None
       ELSE prefs[CHOOSE i \in open : \A j \in open : i <= j]

check_available(g, h) ==
    /\ Len(g.hospitals[h].matching) < g.hospitals[h].capacity
    /\ Range(g.hospitals[h].prefs) \ Range(g.hospitals[h].matching) # {}

unmatch_pair(g, r, h) ==
    [g EXCEPT !.residents[r].matching = None,
              !.hospitals[h].matching = Remove(@, r)]

\* _match_pair: the hospital's matching is kept sorted by its preference
match_pair(g, r, h) ==
    LET joined == Range(g.hospitals[h].matching) \cup {r}
        Joined(x) == x \in joined
    IN [g EXCEPT !.residents[r].matching = h,
                 !.hospitals[h].matching = SelectSeq(g.hospitals[h].prefs, Joined)]

delete_pair(g, r, h) ==
    [g EXCEPT !.residents[r].prefs = Remove(@, h),
              !.hospitals[h].prefs = Remove(@, r)]

\* a mutant of DeleteSuccessors: no pair is deleted
KeepSuccessors(g, r, successors) == g

\* the for loop over resident.get_successors()
RECURSIVE DeleteSuccessors(_, _, _)
DeleteSuccessors(g, r, successors) ==
    IF successors = <<>> THEN g
    ELSE LET s == Head(successors)
             d == delete_pair(g, r, s)
             e == IF ~check_available(d, s) /\ s \in Range(d.free)
                  THEN [d EXCEPT !.free = Remove(@, s)]
                  ELSE d
         IN DeleteSuccessors(e, r, Tail(successors))

\* one pass of "while free_hospitals:"
HospitalOptimalStep(g) ==
    LET hospital == Last(g.free)
        g1 == [g EXCEPT !.free = Front(@)]
        resident == get_favourite(g1, hospital)
    IN IF resident = None THEN [g1 EXCEPT !.ok = FALSE, !.free = <<>>]
       ELSE
       LET curr_match == g1.residents[resident].matching
           g2 == IF curr_match # None
                 THEN LET u == unmatch_pair(g1, resident, curr_match)
                      IN IF curr_match \notin Range(u.free)
                         THEN [u EXCEPT !.free = Append(@, curr_match)]
                         ELSE u
                 ELSE g1
           g3 == match_pair(g2, resident, hospital)
           g4 == IF check_available(g3, hospital)
                 THEN [g3 EXCEPT !.free = Append(@, hospital)]
                 ELSE g3
           prefs == g4.residents[resident].prefs
           successors == SubSeq(prefs, IndexOf(prefs, hospital) + 1, Len(prefs))
       IN DeleteSuccessors(g4, resident, successors)

\* the whole loop
RECURSIVE hospital_optimal(_)
hospital_optimal(g) ==
    IF g.free = <<>> THEN g ELSE hospital_optimal(HospitalOptimalStep(g))

(***************************************************************************)
(* WithinLesionRater.mathcing_result2signals                               *)
(***************************************************************************)
\* a mutant of AtMostOneResident: assert len(residents) in [0]
NoResident(hs) == \A h \in DOMAIN hs : Len(hs[h].matching) = 0

\* the assertion of the loop: every hospital holds 0 or 1 residents
AtMostOneResident(hs) == \A h \in DOMAIN hs : Len(hs[h].matching) \in {0, 1}

\* a mutant of MatchedPairs: the is_true_positive test is left out
MatchedPairsUnfiltered(hs, responses_bd, lesions_bd, k) ==
    LET lesion == lesions_bd[k].key
        residents_of == hs[lesions_bd[k].player].matching
    IN [i \in 1..Len(residents_of) |-> <<Inverse(responses_bd, residents_of[i]), lesion>>]

\* the inner loop for the k-th hospital of the matching result: the pairs
\* (response, lesion) of its residents that pass is_true_positive
MatchedPairs(hs, responses_bd, lesions_bd, k) ==
    LET lesion == lesions_bd[k].key
        residents_of == hs[lesions_bd[k].player].matching
        Covered(r) == is_true_positive(Inverse(responses_bd, r), lesion)
        kept == SelectSeq(residents_of, Covered)
    IN [i \in 1..Len(kept) |-> <<Inverse(responses_bd, kept[i]), lesion>>]

\* the outer loop over matching_result.items(), in the order of hospitals
RECURSIVE TruePositivesUpTo(_, _, _, _)
TruePositivesUpTo(hs, responses_bd, lesions_bd, k) ==
    IF k = 0 THEN <<>>
    ELSE TruePositivesUpTo(hs, responses_bd, lesions_bd, k - 1)
            \o MatchedPairs(hs, responses_bd, lesions_bd, k)

TruePositives(hs, responses_bd, lesions_bd) ==
    TruePositivesUpTo(hs, responses_bd, lesions_bd, Len(lesions_bd))

\* a mutant of FalsePositiveSet: the true positives are not taken out
FalsePositiveSetAll(responses_bd, tp) == Range(Keys(responses_bd))

\* set(responses_bidict.keys()) - set(map(lambda t: t[0], true_positives))
FalsePositiveSet(responses_bd, tp) ==
    Range(Keys(responses_bd)) \ {tp[i][1] : i \in 1..Len(tp)}

(***************************************************************************)
(* WithinLesionRater.evaluate_case_responses as one function: the result   *)
(* of a call on (resps, les), its false positives as a set.                *)
(***************************************************************************)
StartGame(responses_bd, lesions_bd) ==
    [hospitals |-> HospitalsWithPrefs(responses_bd, lesions_bd),
     residents |-> ResidentsWithPrefs(responses_bd, lesions_bd),
     free |-> Values(lesions_bd),
     ok |-> TRUE]

\* if len(residents) > 0 and len(hospitals) > 0
RunsMatching(responses_bd, lesions_bd) ==
    Len(Values(responses_bd)) > 0 /\ Len(Values(lesions_bd)) > 0

evaluate_case_responses(resps, les) ==
    LET responses_bd == build_bidict(resps)
        lesions_bd == build_bidict(les)
    IN IF RunsMatching(responses_bd, lesions_bd)
       THEN LET g == hospital_optimal(StartGame(responses_bd, lesions_bd))
                tp == TruePositives(g.hospitals, responses_bd, lesions_bd)
            IN [ok |-> g.ok /\ AtMostOneResident(g.hospitals),
                tp |-> tp,
                fp |-> FalsePositiveSet(responses_bd, tp)]
       ELSE [ok |-> TRUE, tp |-> <<>>, fp |-> Range(Keys(responses_bd))]

(***************************************************************************)
(* The state machine: one call of evaluate_case_responses, step by step.   *)
(***************************************************************************)
VARIABLES
    pc,                \* the position of the call
    responses,         \* the argument responses
    lesions,           \* the argument lesions
    responses_bidict,  \* Response -> Player
    lesions_bidict,    \* Lesion -> Hospital
    hospitals,         \* the Hospital objects: prefs, matching, capacity
    residents,         \* the Player objects: prefs, matching
    free_hospitals,    \* the work list of hospital_optimal
    true_positive,     \* the returned list of (response, lesion)
    false_positive,    \* the returned list of responses
    matching_runs,     \* how often hospital_resident was called
    proposals          \* the (hospital, resident) pairs proposed so far

engine_vars == <<pc, responses, lesions, responses_bidict, lesions_bidict, hospitals,
                 residents, free_hospitals, true_positive, false_positive, matching_runs,
                 proposals>>

\* the engine at rest, for the specifications of the other parts
EngineIdle ==
    /\ pc = "idle"
    /\ responses = <<>>
    /\ lesions = <<>>
    /\ responses_bidict = <<>>
    /\ lesions_bidict = <<>>
    /\ hospitals = <<>>
    /\ residents = <<>>
    /\ free_hospitals = <<>>
    /\ true_positive = <<>>
    /\ false_positive = <<>>
    /\ matching_runs = 0
    /\ proposals = {}

\* The state of the other parts of the package, each run by a specification
\* of its own: the signal and coordinate values (SignalSpec), the keys and
\* their paths (KeySpec), the loader (LoaderSpec).
VARIABLES
    sig_pc,            \* the position of the signal scenario
    sig_args,          \* the arguments of the constructor or operation
    sig_obj,           \* the constructed Lesion or Response
    sig_lesion,        \* the lesion given to is_true_positive
    sig_result         \* what the operation returned

signal_vars == <<sig_pc, sig_args, sig_obj, sig_lesion, sig_result>>

SignalIdle ==
    /\ sig_pc = "idle"
    /\ sig_args = <<>>
    /\ sig_obj = <<>>
    /\ sig_lesion = <<>>
    /\ sig_result = <<>>

VARIABLES
    key_pc,            \* the position of the key scenario
    key_cls,           \* the class whose methods are called
    key_key,           \* the key the scenario starts from
    key_mid,           \* the RaterCaseKey made by to_ratercasekey
    key_path,          \* the path made by to_path, or given to from_path
    key_out            \* what from_path or to_casekey returned

key_vars == <<key_pc, key_cls, key_key, key_mid, key_path, key_out>>

\* the value None where a key is expected
NoneKey == [class |-> "NoneType"]

KeyIdle ==
    /\ key_pc = "idle"
    /\ key_cls = "NoneType"
    /\ key_key = NoneKey
    /\ key_mid = NoneKey
    /\ key_path = <<>>
    /\ key_out = NoneKey

VARIABLES
    ld_pc,             \* the position of the loader scenario
    ld_ref_glob,       \* what glob returns below the reference directory
    ld_resp_glob,      \* what glob returns below the responses directory
    ld_files,          \* the version of the contents of each case directory
    ld_dict,           \* casekey_ratercasekey_dict, in insertion order
    ld_log             \* the calls of __getitem__ so far, with their results

loader_vars == <<ld_pc, ld_ref_glob, ld_resp_glob, ld_files, ld_dict, ld_log>>

LoaderIdle ==
    /\ ld_pc = "idle"
    /\ ld_ref_glob = <<>>
    /\ ld_resp_glob = <<>>
    /\ ld_files = <<>>
    /\ ld_dict = <<>>
    /\ ld_log = <<>>

\* BaseRater.evaluate (EvaluateSpec) and engine calls running side by side
\* (PairsSpec)
VARIABLES
    ev_pc,             \* the position of the call of evaluate
    ev_input,          \* the argument input, its items in insertion order
    ev_result,         \* what the call returned or raised
    pr_calls,          \* the calls of evaluate_case_responses and their locals
    pr_hospitals,      \* the Hospital objects on the heap
    pr_residents       \* the Player objects on the heap

evaluate_vars == <<ev_pc, ev_input, ev_result>>

EvaluateIdle ==
    /\ ev_pc = "idle"
    /\ ev_input = <<>>
    /\ ev_result = <<>>

pairs_vars == <<pr_calls, pr_hospitals, pr_residents>>

PairsIdle ==
    /\ pr_calls = <<>>
    /\ pr_hospitals = <<>>
    /\ pr_residents = <<>>

other_vars == <<signal_vars, key_vars, loader_vars, evaluate_vars, pairs_vars>>

OthersIdle == SignalIdle /\ KeyIdle /\ LoaderIdle /\ EvaluateIdle /\ PairsIdle

\* what a specification of one part leaves alone
signal_rest == <<engine_vars, key_vars, loader_vars, evaluate_vars, pairs_vars>>

key_rest == <<engine_vars, signal_vars, loader_vars, evaluate_vars, pairs_vars>>

loader_rest == <<engine_vars, signal_vars, key_vars, evaluate_vars, pairs_vars>>

vars == <<engine_vars, other_vars>>

Init ==
    /\ pc = "start"
    /\ responses \in SeqsUpTo(Responses, MaxResponses)
    /\ lesions \in SeqsUpTo(Lesions, MaxLesions)
    /\ responses_bidict = <<>>
    /\ lesions_bidict = <<>>
    /\ hospitals = <<>>
    /\ residents = <<>>
    /\ free_hospitals = <<>>
    /\ true_positive = <<>>
    /\ false_positive = <<>>
    /\ matching_runs = 0
    /\ proposals = {}
    /\ OthersIdle

\* a mutant of iterated: the list is emptied while it is read
consumed(signals) == <<>>

\* enumerate(signals) in the comprehensions of build_bidict: the list is
\* read and stays as it is
iterated(signals) == signals

\* line 27: the two bidicts and their fresh players
BuildBidict ==
    /\ pc = "start"
    /\ responses' = iterated(responses)
    /\ lesions' = iterated(lesions)
    /\ responses_bidict' = build_bidict(responses)
    /\ lesions_bidict' = build_bidict(lesions)
    /\ hospitals' = [h \in Range(Values(lesions_bidict')) |-> NewHospital]
    /\ residents' = [p \in Range(Values(responses_bidict')) |-> NewPlayer]
    /\ pc' = "built"
    /\ UNCHANGED <<free_hospitals, true_positive, false_positive, matching_runs,
                   proposals>>
    /\ UNCHANGED other_vars

\* line 28
SetPrefsOfPlayers ==
    /\ pc = "built"
    /\ hospitals' = HospitalsWithPrefs(responses_bidict, lesions_bidict)
    /\ residents' = ResidentsWithPrefs(responses_bidict, lesions_bidict)
    /\ pc' = "prefs"
    /\ UNCHANGED <<responses, lesions, responses_bidict, lesions_bidict,
                   free_hospitals, true_positive, false_positive, matching_runs, proposals>>
    /\ UNCHANGED other_vars

\* lines 43-47: the else branch and the return
SkipMatching ==
    /\ pc = "prefs"
    /\ ~RunsMatching(responses_bidict, lesions_bidict)
    /\ true_positive' = <<>>
    /\ false_positive' = Keys(responses_bidict)
    /\ pc' = "done"
    /\ UNCHANGED <<responses, lesions, responses_bidict, lesions_bidict,
                   hospitals, residents, free_hospitals, matching_runs, proposals>>
    /\ UNCHANGED other_vars

\* lines 33-40: the call of hospital_resident, free_hospitals = hospitals[:]
StartMatching ==
    /\ pc = "prefs"
    /\ RunsMatching(responses_bidict, lesions_bidict)
    /\ free_hospitals' = Values(lesions_bidict)
    /\ matching_runs' = matching_runs + 1
    /\ pc' = "matching"
    /\ UNCHANGED <<responses, lesions, responses_bidict, lesions_bidict,
                   hospitals, residents, true_positive, false_positive, proposals>>
    /\ UNCHANGED other_vars

\* the proposal of the next pass: the hospital popped from free_hospitals
\* and its favourite
Proposal ==
    <<Last(free_hospitals),
      get_favourite([hospitals |-> hospitals, residents |-> residents,
                     free |-> Front(free_hospitals), ok |-> TRUE],
                    Last(free_hospitals))>>

\* one pass of the loop of hospital_optimal
Propose ==
    /\ pc = "matching"
    /\ free_hospitals # <<>>
    /\ LET g == HospitalOptimalStep([hospitals |-> hospitals, residents |-> residents,
                                     free |-> free_hospitals, ok |-> TRUE])
       IN /\ hospitals' = g.hospitals
          /\ residents' = g.residents
          /\ free_hospitals' = g.free
          /\ pc' = IF g.ok THEN "matching" ELSE "error"
    /\ proposals' = proposals \cup {Proposal}
    /\ UNCHANGED <<responses, lesions, responses_bidict, lesions_bidict,
                   true_positive, false_positive, matching_runs>>
    /\ UNCHANGED other_vars

\* line 42 and the return: the false positives come out of a set, in any order
MatchingResult2Signals ==
    /\ pc = "matching"
    /\ free_hospitals = <<>>
    /\ IF AtMostOneResident(hospitals)
       THEN LET tp == TruePositives(hospitals, responses_bidict, lesions_bidict)
            IN /\ true_positive' = tp
               /\ false_positive' \in Orderings(FalsePositiveSet(responses_bidict, tp))
               /\ pc' = "done"
       ELSE /\ pc' = "error"
            /\ UNCHANGED <<true_positive, false_positive>>
    /\ UNCHANGED <<responses, lesions, responses_bidict, lesions_bidict,
                   hospitals, residents, free_hospitals, matching_runs, proposals>>
    /\ UNCHANGED other_vars

Next ==
    \/ BuildBidict
    \/ SetPrefsOfPlayers
    \/ SkipMatching
    \/ StartMatching
    \/ Propose
    \/ MatchingResult2Signals

Spec == Init /\ [][Next]_vars

\* The same call for the liveness of the matching: the caller is one state
\* before the call, Call hands over the two lists, and the call runs on
\* without a pause until it returns or raises.
FairInit ==
    /\ pc = "call"
    /\ responses = <<>>
    /\ lesions = <<>>
    /\ responses_bidict = <<>>
    /\ lesions_bidict = <<>>
    /\ hospitals = <<>>
    /\ residents = <<>>
    /\ free_hospitals = <<>>
    /\ true_positive = <<>>
    /\ false_positive = <<>>
    /\ matching_runs = 0
    /\ proposals = {}
    /\ OthersIdle

\* evaluate_case_responses(responses, lesions)
Call ==
    /\ pc = "call"
    /\ responses' \in SeqsUpTo(Responses, MaxResponses)
    /\ lesions' \in SeqsUpTo(Lesions, MaxLesions)
    /\ pc' = "start"
    /\ UNCHANGED <<responses_bidict, lesions_bidict, hospitals, residents,
                   free_hospitals, true_positive, false_positive, matching_runs,
                   proposals>>
    /\ UNCHANGED other_vars

FairNext ==
    \/ Call
    \/ BuildBidict
    \/ SetPrefsOfPlayers
    \/ SkipMatching
    \/ StartMatching
    \/ Propose
    \/ MatchingResult2Signals

\* the call is between its first statement and its return: one of its
\* steps can be taken
Running == pc \in {"start", "built", "prefs", "matching"}

\* The interpreter runs the call without stopping: a call that is made is
\* started, and a running call takes its next step.  The second condition
\* is weak fairness of the steps of the call, written with Running as their
\* enabling condition.
FairSpec ==
    /\ FairInit /\ [][FairNext]_vars
    /\ WF_vars(Call)
    /\ (<>[]Running => []<><<FairNext>>_vars)

(***************************************************************************)
(* Properties of the returned (TP, FP).                                    *)
(***************************************************************************)
Done == pc = "done"

TPSet == Range(true_positive)

FPSet == Range(false_positive)

\* the squared-distance form of "the lesion covers the response"
Covers(lesion, response) ==
    DistSq(response.coords, lesion.coords) <= lesion.r * lesion.r

\* C1: in the returned (TP, FP) no lesion is in more than one TP pair, no
\* response is in more than one TP pair, and no response is both the
\* response of a TP pair and in FP.
C1_Capacity ==
    Done =>
        /\ \A i, j \in 1..Len(true_positive) :
              (true_positive[i][2] = true_positive[j][2]
                 \/ true_positive[i][1] = true_positive[j][1]) => i = j
        /\ \A i \in 1..Len(true_positive) : true_positive[i][1] \notin FPSet

\* C1 witness: a lesion claimed by one response while a second response it
\* also covers is returned as a false positive
C1_Witness ==
    /\ Done
    /\ Len(true_positive) = 1
    /\ \E r \in FPSet : Covers(true_positive[1][2], r)

\* C2: every TP entry is a (response, lesion) pair of the inputs whose
\* centers are no farther apart than the lesion's radius.
C2_TruePositivesCovered ==
    Done =>
        \A i \in 1..Len(true_positive) :
            /\ true_positive[i][1] \in Range(responses)
            /\ true_positive[i][2] \in Range(lesions)
            /\ Covers(true_positive[i][2], true_positive[i][1])

\* C2 witness: the matching gave a lesion a response it does not cover, and
\* the returned TP list holds another pair
C2_Witness ==
    /\ Done
    /\ true_positive # <<>>
    /\ \E k \in 1..Len(lesions_bidict) :
          \E r \in Range(hospitals[lesions_bidict[k].player].matching) :
              ~Covers(lesions_bidict[k].key, Inverse(responses_bidict, r))

\* C3: len(TP) + len(FP) == len(responses) for every input.
C3_PartitionComplete ==
    Done => Len(true_positive) + Len(false_positive) = Len(responses)

\* C4: the result is stable with respect to covering partners: there is no
\* response r and lesion l covering r such that (r is a false positive or r
\* is strictly closer to l than to the lesion it is paired with) and (l is
\* in no TP pair or r is strictly closer to l than the response paired
\* with l).
C4_StableAmongCovering ==
    Done =>
        ~ \E r \in Range(responses), l \in Range(lesions) :
            /\ Covers(l, r)
            /\ \/ r \in FPSet
               \/ \E t \in TPSet : t[1] = r /\ distance(r, l) < distance(r, t[2])
            /\ \/ \A t \in TPSet : t[2] # l
               \/ \E t \in TPSet : t[2] = l /\ distance(r, l) < distance(t[1], l)

(***************************************************************************)
(* The reference of C5: lesion-proposing deferred acceptance with lesion   *)
(* capacity 1 over preference lists restricted to covering pairs, nearest  *)
(* first.  held is the set of pairs <<r, l>> "response r holds lesion l",  *)
(* proposed the set of proposals <<l, r>> made so far.                     *)
(***************************************************************************)
RefCandidates(st, l, resps) ==
    {r \in resps : Covers(l, r) /\ <<l, r>> \notin st.proposed}

RefFree(st, les, resps) ==
    {l \in les : (\A r \in resps : <<r, l>> \notin st.held)
                    /\ RefCandidates(st, l, resps) # {}}

RECURSIVE RefDeferredAcceptance(_, _, _)
RefDeferredAcceptance(st, les, resps) ==
    IF RefFree(st, les, resps) = {} THEN st
    ELSE LET l == CHOOSE x \in RefFree(st, les, resps) : TRUE
             cands == RefCandidates(st, l, resps)
             r == CHOOSE x \in cands : \A y \in cands : distance(x, l) <= distance(y, l)
             now == {t \in st.held : t[1] = r}
             accepts == \A t \in now : distance(r, l) < distance(r, t[2])
         IN RefDeferredAcceptance(
                [held |-> IF accepts THEN (st.held \ now) \cup {<<r, l>>} ELSE st.held,
                 proposed |-> st.proposed \cup {<<l, r>>}],
                les, resps)

RefMatching(resps, les) ==
    RefDeferredAcceptance([held |-> {}, proposed |-> {}], les, resps).held

\* no two responses at one distance from a lesion, no two lesions at one
\* distance from a response
NoDistanceTies(resps, les) ==
    /\ \A l \in les : \A r1, r2 \in resps :
          distance(r1, l) = distance(r2, l) => r1 = r2
    /\ \A r \in resps : \A l1, l2 \in les :
          distance(r, l1) = distance(r, l2) => l1 = l2

\* C5: on input without duplicates and without distance ties, TP is the
\* matching of the reference lesion-proposing deferred acceptance over the
\* covering pairs, and FP the responses that run leaves unmatched.
C5_EqualsRestrictedDeferredAcceptance ==
    (/\ Done
     /\ IsInjective(responses)
     /\ IsInjective(lesions)
     /\ NoDistanceTies(Range(responses), Range(lesions)))
    => LET ref == RefMatching(Range(responses), Range(lesions))
       IN /\ TPSet = ref
          /\ FPSet = Range(responses) \ {t[1] : t \in ref}

\* C6: an empty response list gives ([], []); an empty lesion list gives
\* ([], responses); in both cases the matching algorithm is not run.
C6_EmptyInputLaw ==
    Done =>
        /\ responses = <<>> =>
              true_positive = <<>> /\ false_positive = <<>> /\ matching_runs = 0
        /\ lesions = <<>> =>
              true_positive = <<>> /\ false_positive = responses /\ matching_runs = 0

\* every reordering of a list
Reorderings(s) ==
    {[i \in 1..Len(s) |-> s[f[i]]] :
        f \in {g \in [1..Len(s) -> 1..Len(s)] : Range(g) = 1..Len(s)}}

\* C7: for every permutation of the response list and of the lesion list
\* the call returns the same set of TP pairs and the same set of FP
\* responses as on the lists as given.
C7_OrderIndependent ==
    Done =>
        \A rs \in Reorderings(responses), ls \in Reorderings(lesions) :
            LET other == evaluate_case_responses(rs, ls)
            IN Range(other.tp) = TPSet /\ other.fp = FPSet

\* C8: a call whose response list or lesion list holds two equal signals
\* is rejected: it returns no partition.
C8_DuplicatesRejected ==
    (~IsInjective(responses) \/ ~IsInjective(lesions)) => ~Done

C10_SingleResponseNearestCoveringLesion ==
    (/\ Done
     /\ Len(responses) = 1
     /\ IsInjective(lesions)
     /\ \E l \in Range(lesions) : Covers(l, responses[1]))
    => /\ Len(true_positive) = 1
       /\ true_positive[1][1] = responses[1]
       /\ Covers(true_positive[1][2], responses[1])
       /\ \A l \in Range(lesions) :
             Covers(l, responses[1])
                => distance(responses[1], true_positive[1][2]) <= distance(responses[1], l)
       /\ false_positive = <<>>

(***************************************************************************)
(* SignalSpec: the construction of Lesion and Response (signals.py), the   *)
(* predicate is_true_positive, and the arithmetic of the two coordinate    *)
(* classes (coords.py).                                                    *)
(***************************************************************************)
\* the largest radius given to a constructor; the smallest is -1
MaxRadius == 2

\* confidence arguments by Python type
Confidences ==
    {[type |-> "int", value |-> 1], [type |-> "float", value |-> 1],
     [type |-> "str", value |-> 1], [type |-> "NoneType", value |-> 0]}

LesionArgs ==
    {[kind |-> "Lesion", coords |-> c, r |-> rad, name |-> "L"] :
        c \in LesionCoords, rad \in (-1)..MaxRadius}

ResponseArgs ==
    {[kind |-> "Response", coords |-> c, confidence |-> cf, r |-> rad, name |-> "R"] :
        c \in ResponseCoords, cf \in Confidences, rad \in (-1)..MaxRadius}

\* a point of one of the two coordinate classes
SpaceCoordinates ==
    {[space |-> sp, x |-> cx, y |-> cy, z |-> 1] :
        sp \in {"ScannerCoordinates", "SeriesCoordinates"}, cx \in 0..1, cy \in 1..2}

CoordinateArgs ==
    {[kind |-> "Coordinates", a |-> ca, b |-> cb] :
        ca \in SpaceCoordinates, cb \in SpaceCoordinates}

CoordinateOps == {"__add__", "__sub__", "__mul__", "__truediv__", "distance"}

\* a mutant of LesionRadiusOk: zero is let through
LesionRadiusOkOrZero(args) == args.r >= 0

\* Lesion.__post_init__: assert self.r > 0.0
LesionRadiusOk(args) == args.r > 0

\* a mutant of ResponseArgsOk: the confidence is not looked at
ResponseArgsOkAnyConfidence(args) == args.r > 0

\* Response.__post_init__: assert self.r > 0.0; assert isinstance(
\* self.confidence, (float, int))
ResponseArgsOk(args) ==
    /\ args.r > 0
    /\ args.confidence.type \in {"float", "int"}

\* Coordinates._add, _sub, _mul, _truediv, _distance as called by the
\* operators of ScannerCoordinates and SeriesCoordinates: the class of the
\* result is self.__class__, the class of other is never looked at.  A
\* quotient is kept as <<numerator, denominator>>, the distance squared.
Returned(v) == [raised |-> "none", value |-> v]

Raised(e) == [raised |-> e, value |-> <<>>]

CoordinateOp(op, a, b) ==
    CASE op = "__add__" ->
            Returned([space |-> a.space, x |-> a.x + b.x, y |-> a.y + b.y, z |-> a.z + b.z])
      [] op = "__sub__" ->
            Returned([space |-> a.space, x |-> a.x - b.x, y |-> a.y - b.y, z |-> a.z - b.z])
      [] op = "__mul__" ->
            Returned([space |-> a.space, x |-> a.x * b.x, y |-> a.y * b.y, z |-> a.z * b.z])
      [] op = "__truediv__" ->
            IF b.x = 0 \/ b.y = 0 \/ b.z = 0 THEN Raised("ZeroDivisionError")
            ELSE Returned([space |-> a.space, x |-> <<a.x, b.x>>, y |-> <<a.y, b.y>>,
                           z |-> <<a.z, b.z>>])
      [] op = "distance" -> Returned(DistSq(a, b))

SignalInit ==
    /\ sig_pc = "new"
    /\ sig_args \in LesionArgs \cup ResponseArgs \cup CoordinateArgs
    /\ sig_obj = <<>>
    /\ sig_lesion = <<>>
    /\ sig_result = <<>>
    /\ EngineIdle /\ KeyIdle /\ LoaderIdle /\ EvaluateIdle /\ PairsIdle

\* Lesion(coords, r, name)
ConstructLesion ==
    /\ sig_pc = "new"
    /\ sig_args.kind = "Lesion"
    /\ IF LesionRadiusOk(sig_args)
       THEN /\ sig_obj' = [coords |-> sig_args.coords, r |-> sig_args.r,
                           name |-> sig_args.name]
            /\ sig_pc' = "made"
       ELSE /\ sig_obj' = sig_obj
            /\ sig_pc' = "AssertionError"
    /\ UNCHANGED <<sig_args, sig_lesion, sig_result, signal_rest>>

\* Response(coords, confidence, r, name)
ConstructResponse ==
    /\ sig_pc = "new"
    /\ sig_args.kind = "Response"
    /\ IF ResponseArgsOk(sig_args)
       THEN /\ sig_obj' = [coords |-> sig_args.coords,
                           confidence |-> sig_args.confidence.value,
                           r |-> sig_args.r, name |-> sig_args.name]
            /\ sig_pc' = "made"
       ELSE /\ sig_obj' = sig_obj
            /\ sig_pc' = "AssertionError"
    /\ UNCHANGED <<sig_args, sig_lesion, sig_result, signal_rest>>

\* response.is_true_positive(lesion)
IsTruePositive ==
    /\ sig_pc = "made"
    /\ sig_args.kind = "Response"
    /\ \E lesion \in Lesions :
          /\ sig_lesion' = lesion
          /\ sig_result' = is_true_positive(sig_obj, lesion)
    /\ sig_pc' = "judged"
    /\ UNCHANGED <<sig_args, sig_obj, signal_rest>>

\* a + b, a - b, a * b, a / b, a.distance(b)
CoordinateArithmetic ==
    /\ sig_pc = "new"
    /\ sig_args.kind = "Coordinates"
    /\ \E op \in CoordinateOps :
          /\ sig_obj' = op
          /\ sig_result' = CoordinateOp(op, sig_args.a, sig_args.b)
    /\ sig_pc' = "computed"
    /\ UNCHANGED <<sig_args, sig_lesion, signal_rest>>

SignalNext ==
    \/ ConstructLesion
    \/ ConstructResponse
    \/ IsTruePositive
    \/ CoordinateArithmetic

SignalSpec == SignalInit /\ [][SignalNext]_vars

\* C11: is_true_positive(lesion) is true exactly when the Euclidean
\* distance between the two centers is at most the lesion's radius, the
\* boundary included, and the response's own radius has no influence.
C11_TruePositiveIffWithinLesionRadius ==
    sig_pc = "judged" =>
        LET dx == sig_obj.coords.x - sig_lesion.coords.x
            dy == sig_obj.coords.y - sig_lesion.coords.y
            dz == sig_obj.coords.z - sig_lesion.coords.z
        IN /\ sig_result = (dx * dx + dy * dy + dz * dz <= sig_lesion.r * sig_lesion.r)
           /\ \A rad \in 1..(MaxRadius + 1) :
                 is_true_positive([sig_obj EXCEPT !.r = rad], sig_lesion) = sig_result

\* C11 witness: a response on the boundary of the lesion, its own radius
\* different from the lesion's, judged a true positive
C11_Witness ==
    /\ sig_pc = "judged"
    /\ sig_result = TRUE
    /\ distance(sig_obj, sig_lesion) = sig_lesion.r * sig_lesion.r
    /\ sig_obj.r # sig_lesion.r

\* C12: a Lesion or Response with radius <= 0 and a Response whose
\* confidence is neither int nor float are not constructed: the
\* constructor fails, no object is produced, no value is clamped or
\* defaulted.
C12_InvalidConstructionFails ==
    /\ (sig_pc \in {"made", "judged"}) =>
          /\ sig_args.r > 0
          /\ sig_obj.r = sig_args.r
          /\ sig_args.kind = "Response" =>
                /\ sig_args.confidence.type \in {"int", "float"}
                /\ sig_obj.confidence = sig_args.confidence.value
    /\ (/\ sig_pc # "new"
        /\ sig_args.kind \in {"Lesion", "Response"}
        /\ \/ sig_args.r <= 0
           \/ sig_args.kind = "Response"
                /\ sig_args.confidence.type \notin {"int", "float"})
       => sig_pc = "AssertionError" /\ sig_obj = <<>>

\* C12 witness: a Response with a positive radius and a str confidence was
\* refused
C12_Witness ==
    /\ sig_pc = "AssertionError"
    /\ sig_args.kind = "Response"
    /\ sig_args.r > 0
    /\ sig_args.confidence.type = "str"

\* C17: every +, -, *, / or distance between a ScannerCoordinates value
\* and a SeriesCoordinates value is rejected with an error.
C17_MixedSpacesRejected ==
    (sig_pc = "computed" /\ sig_args.a.space # sig_args.b.space)
        => sig_result.raised = "TypeError"

(***************************************************************************)
(* KeySpec: CaseKey and RaterCaseKey (keys.py), their path encoding        *)
(* to_path, the parser from_path and the conversions between the two.      *)
(* A str is a sequence of one-character strings.                           *)
(***************************************************************************)
\* [0-9]
Digits == <<"0", "1", "2", "3", "4", "5", "6", "7", "8", "9">>

\* [A-Z]
Uppers ==
    {"A", "B", "C", "D", "E", "F", "G", "H", "I", "J", "K", "L", "M",
     "N", "O", "P", "Q", "R", "S", "T", "U", "V", "W", "X", "Y", "Z"}

IsDigit(c) == c \in Range(Digits)

\* s[i], or "" past the end of s
At(s, i) == IF i \in 1..Len(s) THEN s[i] ELSE ""

\* the largest modality_id of a key
MaxModalityId == 10

\* str(n) of a non-negative int, as the f-string of to_path formats it
RECURSIVE IntToStr(_)
IntToStr(n) ==
    IF n < 10 THEN <<Digits[n + 1]>>
    ELSE IntToStr(n \div 10) \o <<Digits[(n % 10) + 1]>>

\* int(s) of a string of digits
RECURSIVE StrToInt(_)
StrToInt(s) ==
    IF s = <<>> THEN 0
    ELSE 10 * StrToInt(Front(s)) + (IndexOf(Digits, Last(s)) - 1)

\* the fields of the keys
StudyDate == <<"2", "0", "2", "0", "0", "1", "0", "1">>

PatientIds == {<<"p">>, <<"q", "1">>}

StudyDates == {StudyDate}

Modalities == {<<"C", "T">>, <<"M", "R">>}

SeNums == {<<"1">>, <<"1", "2">>}

RaterNames == {<<"r">>, <<"a", "b">>}

CaseKeys ==
    {[class |-> "CaseKey", patient_id |-> p, study_date |-> d, modality |-> m,
      se_num |-> n] :
        p \in PatientIds, d \in StudyDates, m \in Modalities, n \in SeNums}

RaterCaseKeys ==
    {[class |-> "RaterCaseKey", rater_name |-> r, patient_id |-> k.patient_id,
      study_date |-> k.study_date, modality |-> k.modality, modality_id |-> i,
      se_num |-> k.se_num] :
        r \in RaterNames, k \in CaseKeys, i \in 0..MaxModalityId}

\* CaseKey.to_path
CaseKey_to_path(k) ==
    k.patient_id \o <<"/">> \o k.study_date \o <<"_">> \o k.modality
        \o <<"/", "S", "E">> \o k.se_num

\* a mutant of RaterCaseKey_to_path: the modality_id is left out
RaterCaseKey_to_path_without_modality_id(k) ==
    k.rater_name \o <<"/">> \o k.patient_id \o <<"/">> \o k.study_date \o <<"_">>
        \o k.modality \o <<"/", "S", "E">> \o k.se_num

\* RaterCaseKey.to_path
RaterCaseKey_to_path(k) ==
    k.rater_name \o <<"/">> \o k.patient_id \o <<"/">> \o k.study_date \o <<"_">>
        \o k.modality \o IntToStr(k.modality_id) \o <<"/", "S", "E">> \o k.se_num

to_path(k) ==
    IF k.class = "CaseKey" THEN CaseKey_to_path(k) ELSE RaterCaseKey_to_path(k)

\* CaseKey.to_ratercasekey
to_ratercasekey(k, rater_name, modality_id) ==
    [class |-> "RaterCaseKey", rater_name |-> rater_name, patient_id |-> k.patient_id,
     study_date |-> k.study_date, modality |-> k.modality,
     modality_id |-> modality_id, se_num |-> k.se_num]

\* a mutant of to_casekey: the modality id is kept, as the series number
to_casekey_keeping_modality_id(k) ==
    [class |-> "CaseKey", patient_id |-> k.patient_id, study_date |-> k.study_date,
     modality |-> k.modality, se_num |-> IntToStr(k.modality_id)]

\* RaterCaseKey.to_casekey
to_casekey(k) ==
    [class |-> "CaseKey", patient_id |-> k.patient_id, study_date |-> k.study_date,
     modality |-> k.modality, se_num |-> k.se_num]

\* the index of the first "/" of s at or after i, 0 if there is none
RECURSIVE NextSlash(_, _)
NextSlash(s, i) ==
    IF i > Len(s) THEN 0
    ELSE IF s[i] = "/" THEN i
    ELSE NextSlash(s, i + 1)

\* the length of the longest run of digits of s that starts at i: [0-9]+
\* is greedy and nothing after it makes it give a digit back
RECURSIVE DigitRun(_, _)
DigitRun(s, i) ==
    IF IsDigit(At(s, i)) THEN 1 + DigitRun(s, i + 1) ELSE 0

\* ([0-9]{8})_([A-Z]{2}) at position d of s
DateModalityAt(s, d) ==
    /\ \A i \in d..(d + 7) : IsDigit(At(s, i))
    /\ At(s, d + 8) = "_"
    /\ At(s, d + 9) \in Uppers
    /\ At(s, d + 10) \in Uppers

\* \/SE([0-9]+) at position i of s
SeriesAt(s, i) ==
    /\ At(s, i) = "/"
    /\ At(s, i + 1) = "S"
    /\ At(s, i + 2) = "E"
    /\ DigitRun(s, i + 3) >= 1

\* ([^\/]+)\/([0-9]{8})_([A-Z]{2})\/SE([0-9]+) matched at position p of s:
\* group 1 runs to the next "/", the pattern is not anchored at its end
CaseKeyMatchAt(s, p) ==
    LET j == NextSlash(s, p)
    IN  /\ j > p
        /\ DateModalityAt(s, j + 1)
        /\ SeriesAt(s, j + 12)

CaseKeyGroups(s, p) ==
    LET j == NextSlash(s, p)
    IN  [class |-> "CaseKey",
         patient_id |-> SubSeq(s, p, j - 1),
         study_date |-> SubSeq(s, j + 1, j + 8),
         modality |-> SubSeq(s, j + 10, j + 11),
         se_num |-> SubSeq(s, j + 15, j + 14 + DigitRun(s, j + 15))]

\* ([^\/]+)\/([^\/]+)\/([0-9]{8})_([A-Z]{2})([0-9]+)\/SE([0-9]+) at p
RaterCaseKeyMatchAt(s, p) ==
    LET j1 == NextSlash(s, p)
        j2 == NextSlash(s, j1 + 1)
        n == DigitRun(s, j2 + 12)
    IN  /\ j1 > p
        /\ j2 > j1 + 1
        /\ DateModalityAt(s, j2 + 1)
        /\ n >= 1
        /\ SeriesAt(s, j2 + 12 + n)

RaterCaseKeyGroups(s, p) ==
    LET j1 == NextSlash(s, p)
        j2 == NextSlash(s, j1 + 1)
        n == DigitRun(s, j2 + 12)
        e == j2 + 12 + n
    IN  [class |-> "RaterCaseKey",
         rater_name |-> SubSeq(s, p, j1 - 1),
         patient_id |-> SubSeq(s, j1 + 1, j2 - 1),
         study_date |-> SubSeq(s, j2 + 1, j2 + 8),
         modality |-> SubSeq(s, j2 + 10, j2 + 11),
         modality_id |-> StrToInt(SubSeq(s, j2 + 12, e - 1)),
         se_num |-> SubSeq(s, e + 3, e + 2 + DigitRun(s, e + 3))]

\* the first position at or after p where the pattern matches, 0 if none:
\* re.match with the lazy prefix .*? takes the leftmost start
RECURSIVE FirstMatch(_, _, _)
FirstMatch(cls, s, p) ==
    IF p > Len(s) THEN 0
    ELSE IF (IF cls = "CaseKey" THEN CaseKeyMatchAt(s, p) ELSE RaterCaseKeyMatchAt(s, p))
         THEN p
    ELSE FirstMatch(cls, s, p + 1)

\* CaseKey.from_path
CaseKey_from_path(dir_path) ==
    LET p == FirstMatch("CaseKey", dir_path, 1)
    IN  IF p = 0 THEN NoneKey ELSE CaseKeyGroups(dir_path, p)

\* RaterCaseKey.from_path
RaterCaseKey_from_path(dir_path) ==
    LET p == FirstMatch("RaterCaseKey", dir_path, 1)
    IN  IF p = 0 THEN NoneKey ELSE RaterCaseKeyGroups(dir_path, p)

from_path(cls, dir_path) ==
    IF cls = "CaseKey" THEN CaseKey_from_path(dir_path)
    ELSE RaterCaseKey_from_path(dir_path)

\* os.path.join(a, b) of two relative paths
Join(a, b) ==
    IF a = <<>> THEN b
    ELSE IF Last(a) = "/" THEN a \o b
    ELSE a \o <<"/">> \o b

\* the path of a sequence of directory names
RECURSIVE PathOf(_)
PathOf(names) ==
    IF names = <<>> THEN <<>> ELSE Join(PathOf(Front(names)), Last(names))

\* the directory names of a path: dir_path.split("/")
RECURSIVE Split(_)
Split(s) ==
    LET j == NextSlash(s, 1)
    IN  IF j = 0 THEN <<s>>
        ELSE <<SubSeq(s, 1, j - 1)>> \o Split(SubSeq(s, j + 1, Len(s)))

\* directory names the paths given to from_path are made of: a patient, a
\* study of a CaseKey, a study of a RaterCaseKey, a series, a series with a
\* letter behind its number, a study with a date of seven digits
DirP == <<"p">>

DirStudy == StudyDate \o <<"_", "C", "T">>

DirStudy0 == StudyDate \o <<"_", "C", "T", "0">>

DirSE1 == <<"S", "E", "1">>

DirSE1x == <<"S", "E", "1", "x">>

DirShortStudy == Front(StudyDate) \o <<"_", "C", "T">>

DirNames == {DirP, DirStudy, DirStudy0, DirSE1, DirSE1x, DirShortStudy}

\* the longest path given to from_path, in directory names
MaxDepth == 4

GivenPaths == {PathOf(names) : names \in SeqsUpTo(DirNames, MaxDepth) \ {<<>>}}

\* the parent directories an encoded path is joined to
ParentDirs ==
    {PathOf(<<DirP>>), PathOf(<<DirP, DirP>>), PathOf(<<DirP, DirStudy, DirSE1>>),
     PathOf(<<DirP, DirP, DirStudy0, DirSE1>>)}

KeyInit ==
    /\ \/ /\ key_pc = "key"
          /\ key_key \in CaseKeys \cup RaterCaseKeys
          /\ key_cls = key_key.class
          /\ key_path = <<>>
       \/ /\ key_pc = "path"
          /\ key_key = NoneKey
          /\ key_cls \in {"CaseKey", "RaterCaseKey"}
          /\ key_path \in GivenPaths
    /\ key_mid = NoneKey
    /\ key_out = NoneKey
    /\ EngineIdle /\ SignalIdle /\ LoaderIdle /\ EvaluateIdle /\ PairsIdle

\* key.to_path()
ToPath ==
    /\ key_pc = "key"
    /\ key_path' = to_path(key_key)
    /\ key_pc' = "encoded"
    /\ UNCHANGED <<key_cls, key_key, key_mid, key_out, key_rest>>

\* os.path.join(parent, key.to_path())
JoinParent ==
    /\ key_pc = "encoded"
    /\ \E parent \in ParentDirs : key_path' = Join(parent, key_path)
    /\ key_pc' = "joined"
    /\ UNCHANGED <<key_cls, key_key, key_mid, key_out, key_rest>>

\* cls.from_path(dir_path)
FromPath ==
    /\ key_pc \in {"encoded", "joined", "path"}
    /\ key_out' = from_path(key_cls, key_path)
    /\ key_pc' = (IF key_pc = "path" THEN "parsed" ELSE "decoded")
    /\ UNCHANGED <<key_cls, key_key, key_mid, key_path, key_rest>>

\* casekey.to_ratercasekey(rater_name, modality_id)
ToRaterCaseKey ==
    /\ key_pc = "key"
    /\ key_cls = "CaseKey"
    /\ \E r \in RaterNames, i \in 0..MaxModalityId :
          key_mid' = to_ratercasekey(key_key, r, i)
    /\ key_pc' = "rater"
    /\ UNCHANGED <<key_cls, key_key, key_path, key_out, key_rest>>

\* ratercasekey.to_casekey()
ToCaseKey ==
    /\ key_pc = "rater"
    /\ key_out' = to_casekey(key_mid)
    /\ key_pc' = "back"
    /\ UNCHANGED <<key_cls, key_key, key_mid, key_path, key_rest>>

KeyNext ==
    \/ ToPath
    \/ JoinParent
    \/ FromPath
    \/ ToRaterCaseKey
    \/ ToCaseKey

KeySpec == KeyInit /\ [][KeyNext]_vars

\* C13: for every CaseKey k, rater name r and modality id m,
\* k.to_ratercasekey(r, m).to_casekey() == k; the conversion back keeps
\* exactly patient_id, study_date, modality and se_num and drops the rater
\* name and the modality id.
C13_KeyConversionRoundTrip ==
    key_pc = "back" =>
        /\ key_out = key_key
        /\ DOMAIN key_out = {"class", "patient_id", "study_date", "modality", "se_num"}
        /\ key_out.class = "CaseKey"
        /\ \A f \in {"patient_id", "study_date", "modality", "se_num"} :
              key_out[f] = key_mid[f]

\* C13 witness: a key went to a RaterCaseKey with a two-digit modality id
\* and a rater name of two letters, and back
C13_Witness ==
    /\ key_pc = "back"
    /\ key_mid.modality_id = MaxModalityId
    /\ Len(key_mid.rater_name) = 2
    /\ key_out.se_num = <<"1", "2">>

\* C14: for every valid key k, from_path(k.to_path()) == k, for CaseKey
\* and for RaterCaseKey, also when the encoded path is joined to a parent
\* directory path.
C14_PathRoundTrip ==
    key_pc = "decoded" => key_out = key_key

\* C15 as stated: CaseKey.to_path() is patient_id/study_date_modality/SEse_num
\* and RaterCaseKey.to_path() is rater_name/ followed by exactly that
\* encoding of the same case.
C15_RaterPathIsRaterNameThenCasePath ==
    key_pc = "encoded" =>
        LET case == key_key.patient_id \o <<"/">> \o key_key.study_date \o <<"_">>
                        \o key_key.modality \o <<"/", "S", "E">> \o key_key.se_num
        IN  IF key_cls = "CaseKey" THEN key_path = case
            ELSE key_path = key_key.rater_name \o <<"/">> \o case

\* C15 amended: CaseKey.to_path() is patient_id/study_date_modality/SEse_num;
\* RaterCaseKey.to_path() is rater_name/patient_id/
\* study_date_modality<modality_id>/SEse_num, the modality id in decimal
\* directly behind the modality, and nothing else.
C15_CanonicalEncoding ==
    key_pc = "encoded" =>
        LET names == Split(key_path)
            study == key_key.study_date \o <<"_">> \o key_key.modality
            series == <<"S", "E">> \o key_key.se_num
        IN  IF key_cls = "CaseKey"
            THEN names = <<key_key.patient_id, study, series>>
            ELSE /\ Len(names) = 4
                 /\ names[1] = key_key.rater_name
                 /\ names[2] = key_key.patient_id
                 /\ SubSeq(names[3], 1, Len(study)) = study
                 /\ LET id == SubSeq(names[3], Len(study) + 1, Len(names[3]))
                    IN  /\ id # <<>>
                        /\ \A i \in 1..Len(id) : IsDigit(id[i])
                        /\ (Len(id) > 1 => id[1] # "0")
                        /\ StrToInt(id) = key_key.modality_id
                 /\ names[4] = series

\* C15 witness: the path of a RaterCaseKey with a two-digit modality id
C15_Witness ==
    /\ key_pc = "encoded"
    /\ key_cls = "RaterCaseKey"
    /\ key_key.modality_id = MaxModalityId
    /\ key_path # <<>>

\* the canonical encoding of a key of class cls, parent directories before
\* it allowed: the last directory names are a non-empty name (two for a
\* RaterCaseKey), eight digits "_" two capitals (and digits for a
\* RaterCaseKey), "SE" and digits
IsCanonicalPath(cls, s) ==
    LET names == Split(s)
        n == Len(names)
        k == IF cls = "CaseKey" THEN 3 ELSE 4
    IN  /\ n >= k
        /\ \A i \in (n - k + 1)..(n - 2) : names[i] # <<>>
        /\ LET study == names[n - 1]
               series == names[n]
           IN  /\ Len(study) >= 11
               /\ DateModalityAt(study, 1)
               /\ IF cls = "CaseKey" THEN Len(study) = 11
                  ELSE Len(study) > 11 /\ DigitRun(study, 12) = Len(study) - 11
               /\ Len(series) >= 3
               /\ series[1] = "S" /\ series[2] = "E"
               /\ DigitRun(series, 3) = Len(series) - 2

\* C16: from_path returns None for every path that is not the canonical
\* encoding of a key (parent directories before it allowed), and a key it
\* returns has every field taken from the path.
C16_MalformedPathYieldsNone ==
    key_pc = "parsed" =>
        /\ ~IsCanonicalPath(key_cls, key_path) => key_out.class = "NoneType"
        /\ key_out.class # "NoneType" =>
              /\ key_out.class = key_cls
              /\ key_out.patient_id # <<>>
              /\ Len(key_out.study_date) = 8
              /\ Len(key_out.modality) = 2
              /\ key_out.se_num # <<>>
              /\ key_cls = "RaterCaseKey" =>
                    key_out.rater_name # <<>> /\ key_out.modality_id >= 0

(***************************************************************************)
(* LoaderSpec: BaseLoader (loaders/base_loader.py): the scan of the        *)
(* reference and responses directories at construction, loader[index],     *)
(* and BaseRater.__getitem__, which hands its index to the loader.         *)
(***************************************************************************)
root_dir_path == <<"d">>

REFERENCE_ROOT_DIR_NAME == <<"r", "e", "f", "e", "r", "e", "n", "c", "e">>

RESPONSE_ROOT_DIR_NAME == <<"r", "e", "s", "p", "o", "n", "s", "e", "s">>

reference_root_dir_path == Join(root_dir_path, REFERENCE_ROOT_DIR_NAME)

response_root_dir_path == Join(root_dir_path, RESPONSE_ROOT_DIR_NAME)

lesion_dir_path(casekey) == Join(reference_root_dir_path, to_path(casekey))

response_dir_path(ratercasekey) == Join(response_root_dir_path, to_path(ratercasekey))

\* the cases and rater cases whose directories may be on the disk
LoaderCaseKeys ==
    <<[class |-> "CaseKey", patient_id |-> <<"p">>, study_date |-> StudyDate,
       modality |-> <<"C", "T">>, se_num |-> <<"1">>],
      [class |-> "CaseKey", patient_id |-> <<"p">>, study_date |-> StudyDate,
       modality |-> <<"M", "R">>, se_num |-> <<"1">>]>>

LoaderRaterCaseKeys ==
    [i \in 1..Len(LoaderCaseKeys) |-> to_ratercasekey(LoaderCaseKeys[i], <<"r">>, 0)]

\* directories below reference/: the two cases, and the first case with a
\* letter behind its series number
ReferenceDirPool ==
    {lesion_dir_path(LoaderCaseKeys[i]) : i \in 1..Len(LoaderCaseKeys)}
        \cup {Join(reference_root_dir_path, PathOf(<<DirP, DirStudy, DirSE1x>>))}

DirSub == <<"s", "u", "b">>

\* directories below responses/: the two rater cases, a rater's directory,
\* and a directory below the first rater case
ResponseDirPool ==
    {response_dir_path(LoaderRaterCaseKeys[i]) : i \in 1..Len(LoaderRaterCaseKeys)}
        \cup {Join(response_root_dir_path, <<"r">>)}
        \cup {Join(response_dir_path(LoaderRaterCaseKeys[1]), DirSub)}

\* child is a directory somewhere below parent
IsBelow(child, parent) ==
    /\ Len(child) > Len(parent) + 1
    /\ SubSeq(child, 1, Len(parent)) = parent
    /\ child[Len(parent) + 1] = "/"

\* glob walks top down: a directory comes after the directories it is in
TopDown(listed, pool) ==
    \A i \in 1..Len(listed) : \A q \in pool :
        IsBelow(listed[i], q) => \E j \in 1..(i - 1) : listed[j] = q

\* glob.glob(os.path.join(root, "**"), recursive=True), the files left out:
\* root/ itself, then the directories below it in the order of the disk.
\* The directories between root and a case match no pattern and are left
\* out of the pools.
GlobResults(root, pool) ==
    UNION {{<<root \o <<"/">>>> \o o : o \in {l \in Orderings(dirs) : TopDown(l, pool)}} :
              dirs \in SUBSET pool}

\* the directories __getitem__ reads, in a fixed order
FileDirs ==
    [i \in 1..(2 * Len(LoaderCaseKeys)) |->
        IF i <= Len(LoaderCaseKeys) THEN lesion_dir_path(LoaderCaseKeys[i])
        ELSE response_dir_path(LoaderRaterCaseKeys[i - Len(LoaderCaseKeys)])]

\* what the files of a directory hold: three responses out of order, one
\* other response once the directory was modified; the confidence tells
\* the directories apart
ResponsesIn(dir, modified) ==
    LET Resp(cx, cy, cz) == [coords |-> [x |-> cx, y |-> cy, z |-> cz],
                             confidence |-> IndexOf(FileDirs, dir), r |-> 1, name |-> "R"]
    IN  IF modified THEN <<Resp(1, 1, 1)>>
        ELSE <<Resp(0, 0, 1), Resp(2, 1, 0), Resp(1, 0, 0)>>

\* a mutant of read_responses: what the directory held at construction
read_responses_at_construction(existing, files, case_dir_path) ==
    IF case_dir_path \notin existing THEN <<>>
    ELSE ResponsesIn(case_dir_path, FALSE)

\* read_responses of the concrete loader: the responses in the files of
\* the directory now, none where there is no such directory
read_responses(existing, files, case_dir_path) ==
    IF case_dir_path \notin existing THEN <<>>
    ELSE ResponsesIn(case_dir_path, files[case_dir_path])

\* Response.to_lesion
to_lesion(response) ==
    [coords |-> response.coords, r |-> response.r, name |-> response.name]

\* BaseLoader.read_lesions
read_lesions(existing, files, case_dir_path) ==
    LET resps == read_responses(existing, files, case_dir_path)
    IN  [i \in 1..Len(resps) |-> to_lesion(resps[i])]

\* a mutant of SortKeyLess: the key (x, y, z)
SortKeyLessXYZ(a, b) ==
    \/ a.coords.x < b.coords.x
    \/ a.coords.x = b.coords.x /\ a.coords.y < b.coords.y
    \/ a.coords.x = b.coords.x /\ a.coords.y = b.coords.y /\ a.coords.z < b.coords.z

\* the key of sort_signals, (z, y, x), compared as tuples
SortKeyLess(a, b) ==
    \/ a.coords.z < b.coords.z
    \/ a.coords.z = b.coords.z /\ a.coords.y < b.coords.y
    \/ a.coords.z = b.coords.z /\ a.coords.y = b.coords.y /\ a.coords.x < b.coords.x

\* sort_signals: sorted() is stable
RECURSIVE sort_signals(_)
sort_signals(signals) ==
    IF signals = <<>> THEN <<>>
    ELSE LET sorted == sort_signals(Front(signals))
             sig == Last(signals)
             k == Cardinality({i \in 1..Len(sorted) : ~SortKeyLess(sig, sorted[i])})
         IN  SubSeq(sorted, 1, k) \o <<sig>> \o SubSeq(sorted, k + 1, Len(sorted))

\* the first loop of _init_casekey_ratercasekey_dict: dict[key] = [] for
\* every directory that parses as a CaseKey
RECURSIVE ScanReference(_)
ScanReference(dirs) ==
    IF dirs = <<>> THEN <<>>
    ELSE LET d == ScanReference(Front(dirs))
             key == CaseKey_from_path(Last(dirs))
         IN  IF key.class = "NoneType" THEN d
             ELSE IF \E i \in 1..Len(d) : d[i].casekey = key
                  THEN [i \in 1..Len(d) |->
                           IF d[i].casekey = key THEN [d[i] EXCEPT !.raters = <<>>]
                           ELSE d[i]]
             ELSE Append(d, [casekey |-> key, raters |-> <<>>])

\* the second loop: every directory that parses as a RaterCaseKey is
\* appended to the list of its CaseKey, which is asserted to be a key
RECURSIVE ScanResponses(_, _)
ScanResponses(d0, dirs) ==
    IF dirs = <<>> THEN [dict |-> d0, raised |-> "none"]
    ELSE LET prev == ScanResponses(d0, Front(dirs))
             ratercasekey == RaterCaseKey_from_path(Last(dirs))
             casekey == to_casekey(ratercasekey)
             d == prev.dict
         IN  IF prev.raised # "none" THEN prev
             ELSE IF ratercasekey.class = "NoneType" THEN prev
             ELSE IF \A i \in 1..Len(d) : d[i].casekey # casekey
                  THEN [dict |-> d, raised |-> "AssertionError"]
             ELSE [dict |-> [i \in 1..Len(d) |->
                                IF d[i].casekey = casekey
                                THEN [d[i] EXCEPT !.raters = Append(@, ratercasekey)]
                                ELSE d[i]],
                   raised |-> "none"]

\* a mutant of ListItem: the first item whatever the index
ListItemFirst(s, index) == s[1]

\* list(...)[index] for an index in -len..len-1
ListItem(s, index) == IF index < 0 THEN s[Len(s) + index + 1] ELSE s[index + 1]

\* BaseLoader.__getitem__
getitem(dict, existing, files, index) ==
    IF index >= Len(dict) THEN Raised("IndexError")
    ELSE IF index < -Len(dict) THEN Raised("IndexError")
    ELSE LET entry == ListItem(dict, index)
             keys == DictKeys(entry.raters)
         IN  Returned(
                 [casekey |-> entry.casekey,
                  lesions |-> sort_signals(
                      read_lesions(existing, files, lesion_dir_path(entry.casekey))),
                  rater_responses |->
                      [i \in 1..Len(keys) |->
                          [ratercasekey |-> keys[i],
                           responses |-> sort_signals(
                               read_responses(existing, files,
                                              response_dir_path(keys[i])))]]])

\* the directories on the disk
ExistingDirs == Range(ld_ref_glob) \cup Range(ld_resp_glob)

\* the most calls of __getitem__ in one behaviour
MaxAccesses == 2

LoaderInit ==
    /\ ld_pc = "new"
    /\ ld_ref_glob \in GlobResults(reference_root_dir_path, ReferenceDirPool)
    /\ ld_resp_glob \in GlobResults(response_root_dir_path, ResponseDirPool)
    /\ ld_files = [dir \in Range(FileDirs) |-> FALSE]
    /\ ld_dict = <<>>
    /\ ld_log = <<>>
    /\ EngineIdle /\ SignalIdle /\ KeyIdle /\ EvaluateIdle /\ PairsIdle

\* BaseLoader(root_dir_path)
Construct ==
    /\ ld_pc = "new"
    /\ LET scan == ScanResponses(ScanReference(ld_ref_glob), ld_resp_glob)
       IN  /\ ld_dict' = scan.dict
           /\ ld_pc' = (IF scan.raised = "none" THEN "ready" ELSE scan.raised)
    /\ UNCHANGED <<ld_ref_glob, ld_resp_glob, ld_files, ld_log, loader_rest>>

\* loader[index], and rater[index], which returns self.loader[key]
GetItem ==
    /\ ld_pc = "ready"
    /\ Len(ld_log) < MaxAccesses
    /\ \E index \in (-(Len(ld_dict) + 1))..Len(ld_dict) :
          ld_log' = Append(ld_log,
                           [index |-> index, files |-> ld_files,
                            result |-> getitem(ld_dict, ExistingDirs, ld_files, index)])
    /\ UNCHANGED <<ld_pc, ld_ref_glob, ld_resp_glob, ld_files, ld_dict, loader_rest>>

\* somebody rewrites the files of one case directory, once, between or
\* before the calls
ModifyDirectory ==
    /\ ld_pc = "ready"
    /\ Len(ld_log) < MaxAccesses
    /\ \A dir \in Range(FileDirs) : ~ld_files[dir]
    /\ \E dir \in Range(FileDirs) \cap ExistingDirs :
          ld_files' = [ld_files EXCEPT ![dir] = TRUE]
    /\ UNCHANGED <<ld_pc, ld_ref_glob, ld_resp_glob, ld_dict, ld_log, loader_rest>>

LoaderNext ==
    \/ Construct
    \/ GetItem
    \/ ModifyDirectory

LoaderSpec == LoaderInit /\ [][LoaderNext]_vars

\* the case at a position of the collection, read from the files as they
\* were at a call
LesionsOfCase(casekey, files) ==
    LET dir == lesion_dir_path(casekey)
        resps == IF dir \in ExistingDirs THEN ResponsesIn(dir, files[dir]) ELSE <<>>
    IN  sort_signals([i \in 1..Len(resps) |-> to_lesion(resps[i])])

\* C18: with N cases, loader[index] raises IndexError for every
\* index >= N and returns the case at position index for every index in
\* 0..N-1; no index out of range returns a default or another case.
C18_IndexedAccess ==
    \A c \in 1..Len(ld_log) :
        LET call == ld_log[c]
            N == Len(ld_dict)
        IN  /\ call.index >= N => call.result.raised = "IndexError"
            /\ call.index < -N => call.result.raised = "IndexError"
            /\ call.index \in 0..(N - 1) =>
                  /\ call.result.raised = "none"
                  /\ call.result.value.casekey = ld_dict[call.index + 1].casekey
                  /\ call.result.value.lesions
                        = LesionsOfCase(ld_dict[call.index + 1].casekey, call.files)
                  /\ {call.result.value.rater_responses[i].ratercasekey :
                         i \in 1..Len(call.result.value.rater_responses)}
                        = Range(ld_dict[call.index + 1].raters)

\* C18 witness: of two cases the second was returned for index 1 and
\* index 2 raised
C18_Witness ==
    /\ Len(ld_dict) = 2
    /\ Len(ld_log) = 2
    /\ ld_log[1].index = 1
    /\ ld_log[1].result.raised = "none"
    /\ ld_log[1].result.value.casekey = ld_dict[2].casekey
    /\ ld_log[1].result.value.casekey # ld_dict[1].casekey
    /\ ld_log[2].index = 2
    /\ ld_log[2].result.raised = "IndexError"

\* C19 as stated: the result for an index is computed at the first access
\* and reused, so every access to the same index returns the same result.
C19_SameIndexSameResult ==
    \A a, b \in 1..Len(ld_log) :
        ld_log[a].index = ld_log[b].index => ld_log[a].result = ld_log[b].result

\* C19 amended: nothing is stored; every access reads the directories of
\* the case anew and returns what they hold at that moment, so two accesses
\* to the same index return the same result as long as the directories were
\* not changed between them.
C19_EveryAccessReadsAnew ==
    /\ \A c \in 1..Len(ld_log) :
          ld_log[c].result.raised = "none" =>
              ld_log[c].result.value.lesions
                  = LesionsOfCase(ld_log[c].result.value.casekey, ld_log[c].files)
    /\ \A a, b \in 1..Len(ld_log) :
          (ld_log[a].index = ld_log[b].index /\ ld_log[a].files = ld_log[b].files)
              => ld_log[a].result = ld_log[b].result

\* C19 witness: the same index was accessed twice, the lesion directory of
\* its case was rewritten in between, and the second result is the new one
C19_Witness ==
    /\ Len(ld_log) = 2
    /\ ld_log[1].index = ld_log[2].index
    /\ ld_log[1].result.raised = "none"
    /\ ld_log[1].files # ld_log[2].files
    /\ ld_log[1].result.value.lesions # ld_log[2].result.value.lesions
    /\ Len(ld_log[2].result.value.lesions) = 1

\* C20: when the responses tree holds a rater-case directory whose CaseKey
\* has no directory in the reference tree, the construction aborts with an
\* error; the responses are not dropped and not attached to another case.
C20_OrphanResponseAborts ==
    ld_pc # "new" =>
        /\ (\E i \in 1..Len(ld_resp_glob) :
               LET ratercasekey == RaterCaseKey_from_path(ld_resp_glob[i])
               IN  /\ ratercasekey.class # "NoneType"
                   /\ lesion_dir_path(to_casekey(ratercasekey)) \notin Range(ld_ref_glob))
           => ld_pc = "AssertionError"
        /\ ld_pc = "ready" =>
              \A i \in 1..Len(ld_resp_glob) :
                  LET ratercasekey == RaterCaseKey_from_path(ld_resp_glob[i])
                  IN  ratercasekey.class # "NoneType" =>
                          \A k \in 1..Len(ld_dict) :
                              ratercasekey \in Range(ld_dict[k].raters)
                                  <=> ld_dict[k].casekey = to_casekey(ratercasekey)

(***************************************************************************)
(* Further properties of one call of evaluate_case_responses (Spec).       *)
(***************************************************************************)
\* C21: for every well-formed, duplicate-free input, empty lists, responses
\* covered by no lesion and lesions covering no response included, the call
\* returns a (TP, FP) and never ends in an error or a failed assertion.
C21_NeverFails ==
    /\ pc # "error"
    /\ (pc = "matching" /\ free_hospitals # <<>>) =>
          get_favourite([hospitals |-> hospitals, residents |-> residents,
                         free |-> free_hospitals, ok |-> TRUE],
                        Last(free_hospitals)) # None
    /\ Done => /\ Len(true_positive) <= Len(lesions)
               /\ Range(false_positive) \subseteq Range(responses)

\* C21 witness: a call on two distinct responses and two distinct lesions,
\* one response covered by no lesion and one lesion covering no response,
\* has returned
C21_Witness ==
    /\ Done
    /\ Len(responses) = 2 /\ IsInjective(responses)
    /\ Len(lesions) = 2 /\ IsInjective(lesions)
    /\ \E r \in Range(responses) : \A l \in Range(lesions) : ~Covers(l, r)
    /\ \E l \in Range(lesions) : \A r \in Range(responses) : ~Covers(l, r)
    /\ true_positive # <<>>

\* C22: the preference list set_prefs_of_players gives a lesion holds
\* exactly the responses the lesion covers and the list given to a response
\* exactly the lesions that cover it, each in ascending distance; who
\* covers nothing or is covered by nothing gets an empty list.
C22_PrefsOnlyCovering ==
    pc = "prefs" =>
        /\ \A k \in 1..Len(lesions_bidict) :
              LET lesion == lesions_bidict[k].key
                  prefs == hospitals[lesions_bidict[k].player].prefs
              IN  /\ {Inverse(responses_bidict, prefs[i]) : i \in 1..Len(prefs)}
                        = {r \in Range(Keys(responses_bidict)) : Covers(lesion, r)}
                  /\ \A i, j \in 1..Len(prefs) :
                        i < j => distance(Inverse(responses_bidict, prefs[i]), lesion)
                                    <= distance(Inverse(responses_bidict, prefs[j]), lesion)
        /\ \A k \in 1..Len(responses_bidict) :
              LET response == responses_bidict[k].key
                  prefs == residents[responses_bidict[k].player].prefs
              IN  /\ {Inverse(lesions_bidict, prefs[i]) : i \in 1..Len(prefs)}
                        = {l \in Range(Keys(lesions_bidict)) : Covers(l, response)}
                  /\ \A i, j \in 1..Len(prefs) :
                        i < j => distance(response, Inverse(lesions_bidict, prefs[i]))
                                    <= distance(response, Inverse(lesions_bidict, prefs[j]))

\* C25: the call leaves its inputs unchanged: the two lists hold the same
\* elements in the same order after every step, and the signals the
\* bidicts are keyed by are the signals of the lists, field for field.
C25_InputsUnchanged ==
    [][/\ responses' = responses
       /\ lesions' = lesions
       /\ pc' \notin {"call", "start", "idle"} =>
             /\ Range(Keys(responses_bidict')) = Range(responses)
             /\ Range(Keys(lesions_bidict')) = Range(lesions)]_vars

\* C25 witness: a call has returned a true positive for two responses that
\* are not in the order of their distance to the first lesion
C25_Witness ==
    /\ Done
    /\ Len(responses) = 2
    /\ lesions # <<>>
    /\ SortedByDistance(responses, lesions[1]) # responses
    /\ true_positive # <<>>

\* C27: the deferred acceptance of a call terminates: no lesion proposes to
\* the same response twice, and the call reaches the state where no lesion
\* has a proposal left to make and returns.
C27_Terminates ==
    /\ [][Propose => Proposal \notin proposals]_vars
    /\ <>(pc = "done" /\ free_hospitals = <<>>)

\* C27 witness: a run in which a lesion lost its response to another lesion
\* and proposed again, three proposals for two lesions, has ended
C27_Witness ==
    /\ Done
    /\ Len(lesions_bidict) = 2
    /\ Cardinality(proposals) = 3

(***************************************************************************)
(* BaseRater.evaluate, base_rater.py lines 37-48, called on the class      *)
(* WithinLesionRater.  The input is a dict CaseKey -> (lesions, dict        *)
(* RaterCaseKey -> responses); a dict is the list of its items in          *)
(* insertion order, its keys distinct.                                     *)
(***************************************************************************)
MaxCases == 2

MaxRaters == 2

\* the lesion lists and response lists of the inputs of evaluate
EvLesionLists == {<<>>, <<[coords |-> [x |-> 0, y |-> 0, z |-> 0], r |-> 1, name |-> "L"]>>}

EvResponseLists ==
    {<<>>, <<[coords |-> [x |-> 0, y |-> 0, z |-> 0], confidence |-> 1, r |-> 1, name |-> "R"]>>}

EvRaterNames == <<<<"r">>, <<"s">>>>

HasDistinctKeys(items) == \A i, j \in 1..Len(items) : items[i].key = items[j].key => i = j

\* the dicts RaterCaseKey -> responses of a case
EvRaterDicts(casekey) ==
    {d \in SeqsUpTo([key : {to_ratercasekey(casekey, EvRaterNames[n], 0) :
                               n \in 1..Len(EvRaterNames)},
                     responses : EvResponseLists], MaxRaters) : HasDistinctKeys(d)}

\* the dicts CaseKey -> (lesions, raters)
EvInputs ==
    {d \in SeqsUpTo(UNION {[key : {LoaderCaseKeys[c]}, lesions : EvLesionLists,
                            raters : EvRaterDicts(LoaderCaseKeys[c])] :
                              c \in 1..Len(LoaderCaseKeys)}, MaxCases) : HasDistinctKeys(d)}

\* what a call of the engine hands back: (TP, FP), or the AssertionError
\* of mathcing_result2signals
EngineResult(r) ==
    IF r.ok THEN Returned([tp |-> r.tp, fp |-> r.fp]) ELSE Raised("AssertionError")

\* cls.evaluate_case_responses(*args) on WithinLesionRater: the attribute of
\* the class is the plain function evaluate_case_responses(self, responses,
\* lesions, check_players=False), so the arguments fill self, responses,
\* lesions in this order, and a call with fewer than three raises TypeError.
cls_evaluate_case_responses(args) ==
    IF Len(args) < 3 THEN Raised("TypeError")
    ELSE EngineResult(evaluate_case_responses(args[2], args[3]))

\* lines 45-46 for one rater: an exception of the call leaves the loops
RaterStep(before, ratercasekey, call) ==
    IF before.raised # "none" THEN before
    ELSE IF call.raised # "none" THEN call
    ELSE Returned(Append(before.value,
                         [key |-> ratercasekey, tp |-> call.value.tp,
                          fp |-> call.value.fp]))

\* the inner loop, lines 44-46, over the first n raters of a case
RECURSIVE EvaluateRaters(_, _, _)
EvaluateRaters(lesions_of, raters, n) ==
    IF n = 0 THEN Returned(<<>>)
    ELSE RaterStep(EvaluateRaters(lesions_of, raters, n - 1), raters[n].key,
                   cls_evaluate_case_responses(<<raters[n].responses, lesions_of>>))

\* lines 41-46 for one case
CaseStep(before, case, rated) ==
    IF before.raised # "none" THEN before
    ELSE IF rated.raised # "none" THEN rated
    ELSE Returned(Append(before.value,
                         [key |-> case.key, lesions |-> case.lesions,
                          raters |-> rated.value]))

\* the outer loop, lines 40-46, over the first n cases
RECURSIVE EvaluateCases(_, _)
EvaluateCases(input, n) ==
    IF n = 0 THEN Returned(<<>>)
    ELSE CaseStep(EvaluateCases(input, n - 1), input[n],
                  EvaluateRaters(input[n].lesions, input[n].raters, Len(input[n].raters)))

evaluate(input) == EvaluateCases(input, Len(input))

EvaluateInit ==
    /\ ev_pc = "call"
    /\ ev_input \in EvInputs
    /\ ev_result = <<>>
    /\ EngineIdle /\ SignalIdle /\ KeyIdle /\ LoaderIdle /\ PairsIdle

Evaluate ==
    /\ ev_pc = "call"
    /\ ev_result' = evaluate(ev_input)
    /\ ev_pc' = IF ev_result'.raised = "none" THEN "done" ELSE "raised"
    /\ UNCHANGED ev_input
    /\ UNCHANGED <<engine_vars, signal_vars, key_vars, loader_vars, pairs_vars>>

EvaluateNext == Evaluate

EvaluateSpec == EvaluateInit /\ [][EvaluateNext]_vars

\* the result the responsibility of evaluate describes: the cases of the
\* input, the lesions as given, every rater with the engine's (TP, FP)
ExpectedRater(ratercasekey, r) == [key |-> ratercasekey, tp |-> r.tp, fp |-> r.fp]

ExpectedRaters(lesions_of, raters) ==
    [n \in 1..Len(raters) |->
        ExpectedRater(raters[n].key,
                      evaluate_case_responses(raters[n].responses, lesions_of))]

ExpectedResult(input) ==
    [n \in 1..Len(input) |->
        [key |-> input[n].key, lesions |-> input[n].lesions,
         raters |-> ExpectedRaters(input[n].lesions, input[n].raters)]]

\* C23: evaluate returns a result with the CaseKeys of its input, each with
\* its lesions as given and with its RaterCaseKeys, each mapped to the
\* (TP, FP) of one engine call on that rater's responses and the lesions.
C23_EvaluateEveryPair ==
    ev_pc \notin {"call", "idle"} =>
        /\ ev_pc = "done"
        /\ ev_result = Returned(ExpectedResult(ev_input))

\* the signals read for a directory at a call, as the reader returned them
SignalsRead(dir, files) ==
    IF dir \in ExistingDirs THEN ResponsesIn(dir, files[dir]) ELSE <<>>

\* the tally of a list: how often each element occurs
Tally(s) == [e \in Range(s) |-> Cardinality({i \in 1..Len(s) : s[i] = e})]

\* non-decreasing in (z, y, x)
InCanonicalOrder(s) ==
    \A i, j \in 1..Len(s) :
        i < j =>
            \/ s[i].coords.z < s[j].coords.z
            \/ /\ s[i].coords.z = s[j].coords.z
               /\ \/ s[i].coords.y < s[j].coords.y
                  \/ /\ s[i].coords.y = s[j].coords.y
                     /\ s[i].coords.x <= s[j].coords.x

\* C24: the lesion list and every per-rater response list returned by
\* loader[index] are permutations of the signals read for the case and are
\* in non-decreasing order of (z, then y, then x), whatever the order in
\* which the signals were read.
C24_CanonicalOrder ==
    \A c \in 1..Len(ld_log) :
        LET call == ld_log[c]
            read_l == SignalsRead(lesion_dir_path(call.result.value.casekey), call.files)
        IN  call.result.raised = "none" =>
                /\ InCanonicalOrder(call.result.value.lesions)
                /\ Tally(call.result.value.lesions)
                      = Tally([i \in 1..Len(read_l) |-> to_lesion(read_l[i])])
                /\ \A n \in 1..Len(call.result.value.rater_responses) :
                      LET item == call.result.value.rater_responses[n]
                      IN  /\ InCanonicalOrder(item.responses)
                          /\ Tally(item.responses)
                                = Tally(SignalsRead(response_dir_path(item.ratercasekey),
                                                    call.files))

\* C24 witness: an access returned the lesions and a rater's responses of a
\* case whose files hold the signals out of order
C24_Witness ==
    \E c \in 1..Len(ld_log) :
        LET call == ld_log[c]
        IN  /\ call.result.raised = "none"
            /\ Len(call.result.value.lesions) > 1
            /\ ~InCanonicalOrder(SignalsRead(lesion_dir_path(call.result.value.casekey),
                                             call.files))
            /\ \E n \in 1..Len(call.result.value.rater_responses) :
                  LET item == call.result.value.rater_responses[n]
                  IN  /\ Len(item.responses) > 1
                      /\ ~InCanonicalOrder(SignalsRead(response_dir_path(item.ratercasekey),
                                                       call.files))

\* C28: after the collection is built, every RaterCaseKey listed under a
\* CaseKey converts with to_casekey() to that CaseKey and is listed there
\* at most once, also when a directory lies below an SE<number> directory.
C28_ListedOnceUnderItsCase ==
    ld_pc = "ready" =>
        \A i \in 1..Len(ld_dict) :
            /\ \A n \in 1..Len(ld_dict[i].raters) :
                  to_casekey(ld_dict[i].raters[n]) = ld_dict[i].casekey
            /\ IsInjective(ld_dict[i].raters)

(***************************************************************************)
(* Several (case, rater) pairs evaluated side by side: each pair is one    *)
(* call of WithinLesionRater.evaluate_case_responses, and the steps of     *)
(* the calls interleave in any order.  The Player and Hospital objects     *)
(* live on one heap; a call reaches them through its two bidicts.          *)
(***************************************************************************)
NumCalls == 2

Calls == 1..NumCalls

PairLesion(cx, rad) == [coords |-> [x |-> cx, y |-> 0, z |-> 0], r |-> rad, name |-> "L"]

PairResponse(cx) == [coords |-> [x |-> cx, y |-> 0, z |-> 0], confidence |-> 1, r |-> 1, name |-> "R"]

\* the pairs of a collection: one where a lesion is displaced and proposes
\* again, one with a false positive, one without lesions
PairInputs ==
    {[responses |-> <<PairResponse(0), PairResponse(1)>>,
      lesions |-> <<PairLesion(0, 1), PairLesion(0, 3)>>],
     [responses |-> <<PairResponse(1), PairResponse(2)>>,
      lesions |-> <<PairLesion(2, 1)>>],
     [responses |-> <<PairResponse(0)>>, lesions |-> <<>>]}

\* the enumerate indices that name the players of the inputs
PlayerNames ==
    UNION {(0..(Len(i.responses) - 1)) \cup (0..(Len(i.lesions) - 1)) : i \in PairInputs}

\* a mutant of new_player: one object per name, whichever call asks
registered_player(call, i) == <<0, i>>

\* Player(f"response{i:04d}"), Hospital(f"lesion{i:04d}", 1): the
\* constructor makes a new object in every call
new_player(call, i) == <<call, i>>

PlayerObjects == (0..NumCalls) \X PlayerNames

\* the Hospital objects a call holds in lesions_bidict
HospitalsOf(c) ==
    [h \in Range(Values(pr_calls[c].lesions_bidict)) |-> pr_hospitals[new_player(c, h)]]

\* the Player objects a call holds in responses_bidict
ResidentsOf(c) ==
    [p \in Range(Values(pr_calls[c].responses_bidict)) |-> pr_residents[new_player(c, p)]]

\* the heap after call c wrote the objects it holds
Stored(heap, c, players) ==
    [o \in DOMAIN heap |->
        IF \E p \in DOMAIN players : o = new_player(c, p)
        THEN players[CHOOSE p \in DOMAIN players : o = new_player(c, p)]
        ELSE heap[o]]

NewCall(input) ==
    [pc |-> "start", responses |-> input.responses, lesions |-> input.lesions,
     responses_bidict |-> <<>>, lesions_bidict |-> <<>>, free_hospitals |-> <<>>,
     passes |-> 0, true_positive |-> <<>>, false_positive |-> {}]

PairsInit ==
    /\ pr_calls \in [Calls -> {NewCall(i) : i \in PairInputs}]
    /\ pr_hospitals = [o \in PlayerObjects |-> NewHospital]
    /\ pr_residents = [o \in PlayerObjects |-> NewPlayer]
    /\ EngineIdle /\ SignalIdle /\ KeyIdle /\ LoaderIdle /\ EvaluateIdle

pairs_rest == <<engine_vars, signal_vars, key_vars, loader_vars, evaluate_vars>>

\* line 27 of a call
PairBuildBidict ==
    \E c \in Calls :
        LET responses_bd == build_bidict(pr_calls[c].responses)
            lesions_bd == build_bidict(pr_calls[c].lesions)
        IN  /\ pr_calls[c].pc = "start"
            /\ pr_calls' = [pr_calls EXCEPT ![c].pc = "built",
                                            ![c].responses_bidict = responses_bd,
                                            ![c].lesions_bidict = lesions_bd]
            /\ pr_hospitals' = Stored(pr_hospitals, c,
                                      [h \in Range(Values(lesions_bd)) |-> NewHospital])
            /\ pr_residents' = Stored(pr_residents, c,
                                      [p \in Range(Values(responses_bd)) |-> NewPlayer])
            /\ UNCHANGED pairs_rest

\* line 28 of a call
PairSetPrefsOfPlayers ==
    \E c \in Calls :
        /\ pr_calls[c].pc = "built"
        /\ pr_calls' = [pr_calls EXCEPT ![c].pc = "prefs"]
        /\ pr_hospitals' = Stored(pr_hospitals, c,
                                  HospitalsWithPrefs(pr_calls[c].responses_bidict,
                                                     pr_calls[c].lesions_bidict))
        /\ pr_residents' = Stored(pr_residents, c,
                                  ResidentsWithPrefs(pr_calls[c].responses_bidict,
                                                     pr_calls[c].lesions_bidict))
        /\ UNCHANGED pairs_rest

\* lines 43-47 of a call
PairSkipMatching ==
    \E c \in Calls :
        /\ pr_calls[c].pc = "prefs"
        /\ ~RunsMatching(pr_calls[c].responses_bidict, pr_calls[c].lesions_bidict)
        /\ pr_calls' = [pr_calls EXCEPT
                            ![c].pc = "done",
                            ![c].false_positive = Range(Keys(pr_calls[c].responses_bidict))]
        /\ UNCHANGED <<pr_hospitals, pr_residents, pairs_rest>>

\* lines 33-40 of a call
PairStartMatching ==
    \E c \in Calls :
        /\ pr_calls[c].pc = "prefs"
        /\ RunsMatching(pr_calls[c].responses_bidict, pr_calls[c].lesions_bidict)
        /\ pr_calls' = [pr_calls EXCEPT
                            ![c].pc = "matching",
                            ![c].free_hospitals = Values(pr_calls[c].lesions_bidict)]
        /\ UNCHANGED <<pr_hospitals, pr_residents, pairs_rest>>

\* one pass of the loop of hospital_optimal in a call
PairPropose ==
    \E c \in Calls :
        /\ pr_calls[c].pc = "matching"
        /\ pr_calls[c].free_hospitals # <<>>
        /\ \E g \in {HospitalOptimalStep([hospitals |-> HospitalsOf(c),
                                          residents |-> ResidentsOf(c),
                                          free |-> pr_calls[c].free_hospitals,
                                          ok |-> TRUE])} :
              /\ pr_calls' = [pr_calls EXCEPT
                                  ![c].pc = IF g.ok THEN "matching" ELSE "error",
                                  ![c].free_hospitals = g.free,
                                  ![c].passes = @ + 1]
              /\ pr_hospitals' = Stored(pr_hospitals, c, g.hospitals)
              /\ pr_residents' = Stored(pr_residents, c, g.residents)
        /\ UNCHANGED pairs_rest

\* line 42 of a call and its return
PairMatchingResult2Signals ==
    \E c \in Calls :
        /\ pr_calls[c].pc = "matching"
        /\ pr_calls[c].free_hospitals = <<>>
        /\ \E tp \in {TruePositives(HospitalsOf(c), pr_calls[c].responses_bidict,
                                    pr_calls[c].lesions_bidict)} :
              pr_calls' = [pr_calls EXCEPT
                              ![c].pc = IF AtMostOneResident(HospitalsOf(c))
                                        THEN "done" ELSE "error",
                              ![c].true_positive = tp,
                              ![c].false_positive =
                                  FalsePositiveSet(pr_calls[c].responses_bidict, tp)]
        /\ UNCHANGED <<pr_hospitals, pr_residents, pairs_rest>>

PairsNext ==
    \/ PairBuildBidict
    \/ PairSetPrefsOfPlayers
    \/ PairSkipMatching
    \/ PairStartMatching
    \/ PairPropose
    \/ PairMatchingResult2Signals

PairsSpec == PairsInit /\ [][PairsNext]_vars

\* the game of a call made alone, after k passes of the loop
RECURSIVE SoloGame(_, _, _)
SoloGame(resps, les, k) ==
    IF k = 0 THEN StartGame(build_bidict(resps), build_bidict(les))
    ELSE HospitalOptimalStep(SoloGame(resps, les, k - 1))

\* C26: what a call computes for its pair depends only on the responses and
\* lesions of the pair: in every interleaving of the calls, the players of a
\* call are in the state a call made alone would have left them in, and a
\* finished call returns the (TP, FP) of a call made alone.
C26_PairsIndependent ==
    \A c \in Calls :
        LET call == pr_calls[c]
            solo == evaluate_case_responses(call.responses, call.lesions)
            game == SoloGame(call.responses, call.lesions, call.passes)
        IN  /\ call.pc # "error"
            /\ call.pc \in {"prefs", "matching"} =>
                  /\ HospitalsOf(c) = game.hospitals
                  /\ ResidentsOf(c) = game.residents
            /\ call.pc = "matching" => call.free_hospitals = game.free
            /\ call.pc = "done" =>
                  /\ call.true_positive = solo.tp
                  /\ call.false_positive = solo.fp

\* C26 witness: two calls on different pairs, one returned its true
\* positives after a lesion proposed twice, the other is inside its loop
C26_Witness ==
    \E c, d \in Calls :
        /\ pr_calls[c].responses # pr_calls[d].responses
        /\ pr_calls[c].pc = "done"
        /\ pr_calls[c].passes > Len(pr_calls[c].lesions)
        /\ Len(pr_calls[c].true_positive) > 1
        /\ pr_calls[d].pc = "matching"
        /\ pr_calls[d].passes > 0

==========================================================================
